---- MODULE Spec2Model ----
(***************************************************************************)
(* A model of eland.DataFrame (src/eland/frame.py) and of                  *)
(* eland.ml.MLModel.delete_model (src/eland/ml/ml_model.py).               *)
(*                                                                         *)
(* Python values are encoded as records of one shape, so that a document   *)
(* value, a flattened cell and a coalesced list are values of one kind:    *)
(*   tag = "s"     a scalar (str / int), v its value                       *)
(*   tag = "none"  None                                                    *)
(*   tag = "nan"   the NaN pandas puts in a cell no row value exists for   *)
(*   tag = "list"  a Python list, kids its elements                        *)
(*   tag = "dict"  a Python dict, keys/kids its items in insertion order   *)
(*   tag = "Timestamp" / "DatetimeIndex"  results of pd.to_datetime        *)
(***************************************************************************)
EXTENDS Integers, Sequences, FiniteSets, TLC

VARIABLES df, count, models, op, arg, res, calls, doc

vars == <<df, count, models, op, arg, res, calls, doc>>

(* ---------------------------------------------------------------- bounds *)
MaxVal == 2      \* scalar values are 1..MaxVal
MaxOcc == 2      \* sub-documents in a repeated nested group
MaxCount == 2    \* documents matching the index pattern
MaxHead == 2     \* the n of head(n)
MaxModels == 4   \* trained model ids known to the callers

(* ---------------------------------------------------------- Python values *)
Node(t, v, k, c) == [tag |-> t, v |-> v, keys |-> k, kids |-> c]
S(v) == Node("s", v, <<>>, <<>>)
None == Node("none", 0, <<>>, <<>>)
NaN == Node("nan", 0, <<>>, <<>>)
L(c) == Node("list", 0, <<>>, c)
D(k, c) == Node("dict", 0, k, c)

IsNull(x) == x.tag \in {"none", "nan"}

Range(s) == {s[i] : i \in DOMAIN s}

Min(a, b) == IF a <= b THEN a ELSE b

IndexOf(s, e) == CHOOSE i \in DOMAIN s : s[i] = e

\* a Python dict {name: value} in insertion order
EmptyDict == [keys |-> <<>>, vals |-> <<>>]
DictHas(d, k) == k \in Range(d.keys)
DictGet(d, k) == d.vals[IndexOf(d.keys, k)]
DictSet(d, k, x) ==
  IF DictHas(d, k)
  THEN [d EXCEPT !.vals[IndexOf(d.keys, k)] = x]
  ELSE [keys |-> Append(d.keys, k), vals |-> Append(d.vals, x)]

(* --------------------------------------------------------------- Mappings *)
\* eland.Mappings is not among the sources; it is modelled from the
\* specification's Schema Snapshot: an ordered list of field descriptors.
Field(n, s, t, a) == [name |-> n, source |-> s, pd_dtype |-> t, numeric |-> a]

IndexMappings ==
  << Field("group", TRUE, "object", FALSE),
     Field("user", FALSE, "object", FALSE),
     Field("user.first", TRUE, "object", FALSE),
     Field("user.last", TRUE, "object", FALSE),
     Field("rating", TRUE, "int64", TRUE),
     Field("date", TRUE, "datetime64[ns]", FALSE) >>

source_fields(mappings) ==
  LET src == SelectSeq(mappings, LAMBDA f : f.source)
  IN [i \in DOMAIN src |-> src[i].name]

is_source_field(mappings, name) == name \in Range(source_fields(mappings))

source_field_pd_dtype(mappings, name) ==
  IF \E i \in DOMAIN mappings : mappings[i].name = name
  THEN LET f == mappings[CHOOSE i \in DOMAIN mappings : mappings[i].name = name]
       IN [is_source_field |-> f.source, pd_dtype |-> f.pd_dtype]
  ELSE [is_source_field |-> FALSE, pd_dtype |-> "object"]

numeric_source_fields(mappings) ==
  LET num == SelectSeq(mappings, LAMBDA f : f.source /\ f.numeric)
  IN [i \in DOMAIN num |-> num[i].name]

\* Mappings(mappings=parent, columns=columns): the narrowed snapshot, in the
\* parent's order; UnknownColumnError when a name is no source field of it.
NarrowMappings(mappings, columns) ==
  IF \A i \in DOMAIN columns : is_source_field(mappings, columns[i])
  THEN [raised |-> "",
        mappings |-> SelectSeq(mappings, LAMBDA f : f.source /\ f.name \in Range(columns))]
  ELSE [raised |-> "UnknownColumnError", mappings |-> <<>>]

(* ------------------------------------------------------------ flatten_dict *)
\* pd.to_datetime(x)
RECURSIVE to_datetime(_)
to_datetime(x) ==
  CASE x.tag = "s" -> Node("Timestamp", x.v, <<>>, <<>>)
    [] x.tag = "none" -> None
    [] x.tag = "list" ->
         Node("DatetimeIndex", 0, <<>>, [i \in DOMAIN x.kids |-> to_datetime(x.kids[i])])
    [] OTHER -> Node("ValueError", 0, <<>>, <<>>)

Coerce(pd_dtype, x) == IF pd_dtype = "datetime64[ns]" THEN to_datetime(x) ELSE x

\* faulty variants of the merge of one emitted value into out
emit_always_list(out, field_name, x) ==
  IF DictHas(out, field_name)
  THEN LET cur == DictGet(out, field_name)
       IN DictSet(out, field_name, L(Append(cur.kids, x)))
  ELSE DictSet(out, field_name, L(<<x>>))

emit_overwrite(out, field_name, x) == DictSet(out, field_name, x)

\* frame.py 210-216: out[field_name] becomes x, or the list of the values so far
emit(out, field_name, x) ==
  IF DictHas(out, field_name)
  THEN LET cur == DictGet(out, field_name)
           l == IF cur.tag # "list" THEN L(<<cur>>) ELSE cur
       IN DictSet(out, field_name, L(Append(l.kids, x)))
  ELSE DictSet(out, field_name, x)

RECURSIVE flatten(_, _, _, _), flatten_each(_, _, _, _, _)
\* frame.py 186-216: one call of the closure flatten(x, name) on the current out
flatten(mappings, x, name, out) ==
  LET sf == IF name = ""
            THEN [is_source_field |-> FALSE, pd_dtype |-> "object"]
            ELSE source_field_pd_dtype(mappings, SubSeq(name, 1, Len(name) - 1))
  IN IF ~sf.is_source_field /\ x.tag \in {"dict", "list"}
     THEN flatten_each(mappings, x, name, out, 1)
     ELSE IF sf.is_source_field
          THEN emit(out, SubSeq(name, 1, Len(name) - 1), Coerce(sf.pd_dtype, x))
          ELSE out

\* the two for loops (196-197 over a dict, 199-200 over a list), from item i on
flatten_each(mappings, x, name, out, i) ==
  IF i > Len(x.kids) THEN out
  ELSE LET child == IF x.tag = "dict" THEN name \o x.keys[i] \o "." ELSE name
       IN flatten_each(mappings, x, name, flatten(mappings, x.kids[i], child, out), i + 1)

flatten_dict(mappings, y) == flatten(mappings, y, "", EmptyDict)

(* -------------------------------------------------------------- documents *)
Scalars == {S(v) : v \in 1..MaxVal}
ListVals == {L(<<a>>) : a \in Scalars} \cup {L(<<S(1), a>>) : a \in Scalars}

SubDocs ==
  {D(<<>>, <<>>)}
  \cup {D(<<"first">>, <<a>>) : a \in Scalars \cup ListVals}
  \cup {D(<<"last">>, <<b>>) : b \in Scalars}
  \cup {D(<<"first", "last">>, <<a, b>>) : a \in Scalars \cup ListVals, b \in Scalars}

SeqsUpTo(T, n) == UNION {[1..k -> T] : k \in 0..n}

UserVals == SubDocs \cup {L(q) : q \in SeqsUpTo(SubDocs, MaxOcc)}

FlatDocs ==
  {D(<<>>, <<>>)}
  \cup {D(<<"group">>, <<a>>) : a \in Scalars}
  \cup {D(<<"rating", "group">>, <<a, a>>) : a \in Scalars}
  \cup {D(<<"date", "rating">>, <<a, a>>) : a \in Scalars \cup {None}}
  \cup {D(<<"date", "colour">>, <<L(<<a, a>>), a>>) : a \in Scalars}
  \cup {D(<<"group", "rating", "date">>, <<a, a, a>>) : a \in Scalars}

Docs == {D(<<"group", "user">>, <<S(1), u>>) : u \in UserVals} \cup FlatDocs

Schemas ==
  { IndexMappings,
    NarrowMappings(IndexMappings, <<"user.first">>).mappings,
    NarrowMappings(IndexMappings, <<"group", "user.last">>).mappings }

Frame(m) == [index_pattern |-> "reviews", mappings |-> m, operations |-> <<>>]

(* ------------------------------------------------- the flattener, applied *)
InitFlatten ==
  /\ df \in {Frame(m) : m \in Schemas}
  /\ doc \in Docs
  /\ count = 0
  /\ models = {}
  /\ op = "init"
  /\ arg = <<>>
  /\ res = <<>>
  /\ calls = <<>>

CallFlattenDict ==
  /\ op = "init"
  /\ op' = "flatten_dict"
  /\ arg' = doc
  /\ res' = flatten_dict(df.mappings, doc)
  /\ calls' = <<>>
  /\ UNCHANGED <<df, count, models, doc>>

NextFlatten == CallFlattenDict

SpecFlatten == InitFlatten /\ [][NextFlatten]_vars

(* ------------------------------------------------------------------ pandas *)
\* the column labels of pd.DataFrame(data=rows): the rows' keys, first seen first
RECURSIVE UnionKeys(_, _, _)
UnionKeys(rows, i, acc) ==
  IF i > Len(rows) THEN acc
  ELSE UnionKeys(rows, i + 1,
                 acc \o SelectSeq(rows[i].keys, LAMBDA k : k \notin Range(acc)))

\* pd.DataFrame(data=rows): a cell no row value exists for is NaN
pd_DataFrame(rows) ==
  LET cols == UnionKeys(rows, 1, <<>>)
  IN [columns |-> cols,
      data |-> [i \in DOMAIN rows |->
                 [j \in DOMAIN cols |->
                   IF DictHas(rows[i], cols[j]) THEN DictGet(rows[i], cols[j]) ELSE NaN]]]

\* df[col] = x, x a scalar: the column is replaced, or added last
pd_setitem(pdf, col, x) ==
  IF col \in Range(pdf.columns)
  THEN [pdf EXCEPT !.data = [i \in DOMAIN pdf.data |->
                               [pdf.data[i] EXCEPT ![IndexOf(pdf.columns, col)] = x]]]
  ELSE [columns |-> Append(pdf.columns, col),
        data |-> [i \in DOMAIN pdf.data |-> Append(pdf.data[i], x)]]

\* df[col].astype(pd_dtype) of a column of None objects: int(None) raises,
\* every other dtype accepts None; a column without rows converts to anything
pd_astype_raises(pdf, col, pd_dtype) == pd_dtype = "int64" /\ Len(pdf.data) > 0

\* df[columns]: the listed columns, in the listed order
pd_getitem_columns(pdf, columns) ==
  [columns |-> columns,
   data |-> [i \in DOMAIN pdf.data |->
              [j \in DOMAIN columns |-> pdf.data[i][IndexOf(pdf.columns, columns[j])]]]]

RECURSIVE Orderings(_)
Orderings(T) ==
  IF T = {} THEN {<<>>}
  ELSE UNION {{<<x>> \o s : s \in Orderings(T \ {x})} : x \in T}

(* --------------------------------------------------------------- DataFrame *)
\* frame.py 75-94: with mappings given no query is issued
DataFrame_init(index_pattern, mappings, operations) ==
  [index_pattern |-> index_pattern, mappings |-> mappings, operations |-> operations]

columns(self) == source_fields(self.mappings)

NoFrame == [columns |-> <<>>, data |-> <<>>]

\* frame.py 235: the columns of the mapping that no returned row holds
missing_columns(self, pdf) == Range(columns(self)) \ Range(pdf.columns)

\* frame.py 237-240, the loop from the i-th missing column on
RECURSIVE fill_each(_, _, _, _)
fill_each(self, pdf, missing, i) ==
  IF i > Len(missing) THEN [raised |-> "", df |-> pdf]
  ELSE LET pd_dtype == source_field_pd_dtype(self.mappings, missing[i]).pd_dtype
       IN IF pd_astype_raises(pdf, missing[i], pd_dtype)
          THEN [raised |-> "TypeError", df |-> NoFrame]
          ELSE fill_each(self, pd_setitem(pdf, missing[i], None), missing, i + 1)

\* faulty variants of the reconciliation
sort_columns_skipped(self, pdf) == pdf

fill_missing_absent_in_first_row(self, pdf, missing) ==
  LET absent == IF Len(pdf.data) = 0 THEN {}
                ELSE {c \in Range(pdf.columns) : pdf.data[1][IndexOf(pdf.columns, c)].tag = "nan"}
  IN fill_each(self, pdf, missing \o (CHOOSE s \in Orderings(absent) : TRUE), 1)

\* frame.py 235-240: every missing column becomes a column of None
fill_missing(self, pdf, missing) == fill_each(self, pdf, missing, 1)

\* frame.py 243
sort_columns(self, pdf) == pd_getitem_columns(pdf, columns(self))

\* frame.py 222-245; missing is list(set(...)), some order of the missing columns
es_results_to_pandas(self, hits, missing) ==
  LET rows == [i \in DOMAIN hits |-> flatten_dict(self.mappings, hits[i])]
      filled == fill_missing(self, pd_DataFrame(rows), missing)
  IN IF filled.raised # "" THEN [raised |-> filled.raised, df |-> filled.df]
     ELSE [raised |-> "", df |-> sort_columns(self, filled.df)]

\* frame.py 247-250: one search, then the conversion
head(self, n, hits, missing) ==
  LET r == es_results_to_pandas(self, hits, missing)
  IN [self |-> self, calls |-> <<"search">>, raised |-> r.raised, ret |-> r.df]

\* faulty variant: the fields of the mapping counted, not the source fields
shape_all_mapping_fields(self, counted) ==
  [self |-> self, calls |-> <<"count">>, raised |-> "",
   ret |-> <<counted, Len(self.mappings)>>]

\* frame.py 330-334
len(self, counted) == [self |-> self, calls |-> <<"count">>, ret |-> counted]

\* frame.py 286-300
shape(self, counted) ==
  LET num_rows == len(self, counted)
      num_columns == Len(columns(self))
  IN [self |-> self, calls |-> num_rows.calls, raised |-> "",
      ret |-> <<num_rows.ret, num_columns>>]


StatNames == <<"count", "mean", "std", "min", "25%", "50%", "75%", "max">>

\* frame.py 267-280, from the i-th numeric field on: the kept columns
RECURSIVE describe_results(_, _, _, _)
describe_results(fields, response, i, results) ==
  IF i > Len(fields) THEN results
  ELSE LET field == fields[i]
           es == response["extended_stats_" \o field]
           pc == response["percentiles_" \o field]
           values == << es.count, es.avg, es.std_deviation, es.min,
                        pc.values["25.0"], pc.values["50.0"], pc.values["75.0"], es.max >>
           nNone == Cardinality({j \in DOMAIN values : values[j] = None})
       IN describe_results(fields, response, i + 1,
            IF nNone < Len(values) THEN DictSet(results, field, values) ELSE results)

\* frame.py 257-261: the aggregations requested
describe_aggs(fields) ==
  {"extended_stats_" \o f : f \in Range(fields)} \cup {"percentiles_" \o f : f \in Range(fields)}

\* faulty variant: no query when there is nothing to aggregate
describe_no_query_when_empty(self, response) ==
  LET numeric == numeric_source_fields(self.mappings)
      results == describe_results(numeric, response, 1, EmptyDict)
  IN [self |-> self, calls |-> IF Len(numeric) = 0 THEN <<>> ELSE <<"execute">>,
      raised |-> "",
      ret |-> [columns |-> results.keys, index |-> StatNames, data |-> results.vals]]

\* frame.py 252-284: response is what search.execute() answers
describe(self, response) ==
  LET numeric_source_fields_ == numeric_source_fields(self.mappings)
      results == describe_results(numeric_source_fields_, response, 1, EmptyDict)
  IN [self |-> self, calls |-> <<"execute">>, raised |-> "",
      ret |-> [columns |-> results.keys, index |-> StatNames, data |-> results.vals]]

\* frame.py 306-328; item is a str, a tuple or anything else (here a list)
getitem(self, item) ==
  LET bad_str == item.kind = "str" /\ ~is_source_field(self.mappings, item.names[1])
      columns_ == IF item.kind \in {"str", "tuple"} THEN item.names ELSE <<>>
      narrowed == NarrowMappings(self.mappings, columns_)
  IN IF bad_str
     THEN [self |-> self, calls |-> <<>>, raised |-> "TypeError", ret |-> <<>>]
     ELSE IF Len(columns_) > 0
          THEN IF narrowed.raised # ""
               THEN [self |-> self, calls |-> <<>>, raised |-> narrowed.raised, ret |-> <<>>]
               ELSE [self |-> self, calls |-> <<>>, raised |-> "",
                     ret |-> <<DataFrame_init(self.index_pattern, narrowed.mappings, <<>>)>>]
          ELSE [self |-> self, calls |-> <<>>, raised |-> "", ret |-> <<>>]

(* ------------------------------------------------------ the store's answers *)
\* the nested document of the docstring (frame.py 135-147): group "amsterdam",
\* user John Smith and Alice White, the names numbered 1 and 2
AmsterdamDoc ==
  D(<<"group", "user">>,
    <<S(1), L(<<D(<<"first", "last">>, <<S(1), S(1)>>),
                D(<<"first", "last">>, <<S(2), S(2)>>)>>)>>)

\* what a search may return as a hit's _source
HitDocs ==
  { AmsterdamDoc,
    D(<<"rating", "group">>, <<S(2), S(1)>>),
    D(<<"date", "rating">>, <<S(1), S(1)>>),
    D(<<>>, <<>>) }

NoStats == [count |-> None, avg |-> None, std_deviation |-> None, min |-> None,
            max |-> None, p25 |-> None, p50 |-> None, p75 |-> None]
EmptyStats == [NoStats EXCEPT !.count = S(0)]
FullStats == [count |-> S(2), avg |-> S(3), std_deviation |-> S(1), min |-> S(2),
              max |-> S(4), p25 |-> S(2), p50 |-> S(3), p75 |-> S(4)]
StatsChoices == {NoStats, EmptyStats, FullStats}

\* the aggregation response in which field f has the statistics choice[f]
AggResponse(fields, choice) ==
  [k \in describe_aggs(fields) |->
    LET f == CHOOSE g \in Range(fields) : k \in {"extended_stats_" \o g, "percentiles_" \o g}
        st == choice[f]
    IN IF k = "extended_stats_" \o f
       THEN [count |-> st.count, avg |-> st.avg, std_deviation |-> st.std_deviation,
             min |-> st.min, max |-> st.max]
       ELSE [values |-> [q \in {"25.0", "50.0", "75.0"} |->
                          IF q = "25.0" THEN st.p25 ELSE IF q = "50.0" THEN st.p50 ELSE st.p75]]]

Names == Range(source_fields(IndexMappings)) \cup {"user", "nonexistent_field"}
TupleNames == {"group", "user.first", "rating", "nonexistent_field"}

Items ==
  {[kind |-> "str", names |-> <<a>>] : a \in Names}
  \cup {[kind |-> "list", names |-> <<a>>] : a \in {"group", "nonexistent_field"}}
  \cup {[kind |-> "tuple", names |-> <<p[1], p[2]>>] :
           p \in {q \in TupleNames \X TupleNames : q[1] # q[2]}}

(* ----------------------------------------------------------------- actions *)
Init ==
  /\ df = DataFrame_init("reviews", IndexMappings, <<>>)
  /\ count \in 0..MaxCount
  /\ models = {}
  /\ op = "init"
  /\ arg = <<>>
  /\ res = <<>>
  /\ calls = <<>>
  /\ doc = D(<<>>, <<>>)

CallHead ==
  \E n \in 0..MaxHead :
    \E hits \in [1..Min(n, count) -> HitDocs] :
      LET rows == [i \in DOMAIN hits |-> flatten_dict(df.mappings, hits[i])]
      IN \E missing \in Orderings(missing_columns(df, pd_DataFrame(rows))) :
           \E r \in {head(df, n, hits, missing)} :
              /\ op' = "head"
              /\ arg' = [n |-> n, hits |-> hits]
              /\ res' = [raised |-> r.raised, ret |-> r.ret]
              /\ calls' = r.calls
              /\ df' = r.self
              /\ UNCHANGED <<count, models, doc>>

CallDescribe ==
  \E choice \in [Range(numeric_source_fields(df.mappings)) -> StatsChoices] :
    \E r \in {describe(df, AggResponse(numeric_source_fields(df.mappings), choice))} :
       /\ op' = "describe"
       /\ arg' = choice
       /\ res' = [raised |-> r.raised, ret |-> r.ret]
       /\ calls' = r.calls
       /\ df' = r.self
       /\ UNCHANGED <<count, models, doc>>

CallShape ==
  \E r \in {shape(df, count)} :
     /\ op' = "shape"
     /\ arg' = IF op = "head" /\ res.raised = "" THEN <<Len(res.ret.data)>> ELSE <<>>
     /\ res' = [raised |-> r.raised, ret |-> r.ret]
     /\ calls' = r.calls
     /\ df' = r.self
     /\ UNCHANGED <<count, models, doc>>

CallGetItem ==
  \E item \in Items :
    \E r \in {getitem(df, item)} :
       /\ op' = "getitem"
       /\ arg' = [item |-> item, self |-> df]
       /\ res' = [raised |-> r.raised, ret |-> r.ret]
       /\ calls' = r.calls
       /\ df' = IF Len(r.ret) = 1 THEN r.ret[1] ELSE r.self
       /\ UNCHANGED <<count, models, doc>>

Next == CallHead \/ CallDescribe \/ CallShape \/ CallGetItem

Spec == Init /\ [][Next]_vars

(* ----------------------------------------------------------------- MLModel *)
ModelIds == 1..MaxModels

\* self._client.ml.delete_trained_model(model_id=..., ignore=ignore), the store
\* answering status: a status in ignore is returned when the transport honours
\* ignore, a 404 is raised as NotFoundError, any other failure as TransportError
delete_trained_model(status, ignore, honours) ==
  IF status = 200 THEN [raised |-> "", ret |-> status]
  ELSE IF status \in ignore /\ honours THEN [raised |-> "", ret |-> status]
  ELSE IF status = 404 THEN [raised |-> "NotFoundError", ret |-> status]
  ELSE [raised |-> "TransportError", ret |-> status]

\* faulty variant: the except clause left out
delete_model_no_except(status, honours) ==
  [raised |-> delete_trained_model(status, {404}, honours).raised]

\* ml_model.py 37-46
delete_model(status, honours) ==
  LET r == delete_trained_model(status, {404}, honours)
  IN IF r.raised = "NotFoundError" THEN [raised |-> ""] ELSE [raised |-> r.raised]

InitML ==
  /\ df = DataFrame_init("reviews", IndexMappings, <<>>)
  /\ count = 0
  /\ models \in SUBSET ModelIds
  /\ op = "init"
  /\ arg = <<>>
  /\ res = <<>>
  /\ calls = <<>>
  /\ doc = D(<<>>, <<>>)

CallDeleteModel ==
  \E model_id \in ModelIds, honours \in BOOLEAN :
    \E status \in (IF model_id \in models THEN {200} ELSE {404}) \cup {500} :
      /\ op' = "delete_model"
      /\ arg' = [model_id |-> model_id, status |-> status, honours |-> honours,
                 again |-> op = "delete_model" /\ arg.model_id = model_id
                           /\ arg.status # 500]
      /\ res' = delete_model(status, honours)
      /\ calls' = <<"delete_trained_model">>
      /\ models' = IF status = 200 THEN models \ {model_id} ELSE models
      /\ UNCHANGED <<df, count, doc>>

NextML == CallDeleteModel

SpecML == InitML /\ [][NextML]_vars

(* -------------------------------------------------------------- properties *)
\* The occurrences of a column in a document: the values met, in traversal
\* order, at the paths the mapping knows as that source field.
RECURSIVE Occurrences(_, _, _, _), OccurrencesEach(_, _, _, _, _)
Occurrences(mappings, x, name, field) ==
  IF name # "" /\ is_source_field(mappings, SubSeq(name, 1, Len(name) - 1))
  THEN IF SubSeq(name, 1, Len(name) - 1) = field THEN <<x>> ELSE <<>>
  ELSE IF x.tag \in {"dict", "list"}
       THEN OccurrencesEach(mappings, x, name, field, 1)
       ELSE <<>>

OccurrencesEach(mappings, x, name, field, i) ==
  IF i > Len(x.kids) THEN <<>>
  ELSE Occurrences(mappings, x.kids[i],
                   IF x.tag = "dict" THEN name \o x.keys[i] \o "." ELSE name, field)
       \o OccurrencesEach(mappings, x, name, field, i + 1)

\* the values of the occurrences as the flattener emits them
Emitted(mappings, y, field) ==
  LET occ == Occurrences(mappings, y, "", field)
      pd_dtype == source_field_pd_dtype(mappings, field).pd_dtype
  IN [i \in DOMAIN occ |-> Coerce(pd_dtype, occ[i])]

\* C1: the table head returns has the proxy's columns, in the mapping's order,
\* and every row has exactly one cell per column, whatever the hits held.
C1_HeadColumnsAreProxyColumns ==
  (op = "head" /\ res.raised = "") =>
     /\ res.ret.columns = source_fields(df.mappings)
     /\ Len(res.ret.data) = Len(arg.hits)
     /\ \A i \in DOMAIN res.ret.data : Len(res.ret.data[i]) = Len(source_fields(df.mappings))

\* a head of two documents whose keys come in another order than the mapping's
\* and that lack columns of it
C1_Witness ==
  /\ op = "head" /\ res.raised = ""
  /\ Len(arg.hits) = 2
  /\ df.mappings = IndexMappings
  /\ arg.hits[1].keys = <<"rating", "group">>
  /\ arg.hits[2] = AmsterdamDoc
  /\ res.ret.columns = <<"group", "user.first", "user.last", "rating", "date">>

\* C2: in the table head returns, a cell is the value the row's document
\* yielded for the column, and null when the document yielded none.
C2_MissingCellsAreNull ==
  (op = "head" /\ res.raised = "") =>
     \A i \in DOMAIN res.ret.data : \A j \in DOMAIN res.ret.columns :
        LET row == flatten_dict(df.mappings, arg.hits[i])
            cell == res.ret.data[i][j]
        IN IF DictHas(row, res.ret.columns[j])
           THEN cell = DictGet(row, res.ret.columns[j])
           ELSE IsNull(cell)

\* two rows; "date" is in neither document, "rating" only in the first
C2_Witness ==
  /\ op = "head" /\ res.raised = ""
  /\ df.mappings = IndexMappings
  /\ arg.hits = << D(<<"rating", "group">>, <<S(2), S(1)>>), AmsterdamDoc >>
  /\ res.ret.data[1] = <<S(1), NaN, NaN, S(2), None>>
  /\ res.ret.data[2] = <<S(1), L(<<S(1), S(2)>>), L(<<S(1), S(2)>>), NaN, None>>

C4_SingleOccurrenceIsBare ==
  op = "flatten_dict" =>
     \A f \in Range(source_fields(df.mappings)) :
        LET occ == Emitted(df.mappings, arg, f)
        IN Len(occ) = 1 => (DictHas(res, f) /\ DictGet(res, f) = occ[1])

\* the single occurrence sits in a one-element array of sub-documents
C4_Witness ==
  /\ op = "flatten_dict"
  /\ arg = D(<<"group", "user">>, <<S(1), L(<<D(<<"first">>, <<S(2)>>)>>)>>)
  /\ DictHas(res, "user.first") /\ DictGet(res, "user.first") = S(2)

\* C5 (as claimed): a numeric field whose count is 0 and whose other seven
\* statistics are null has no column in what describe returns.
C5_EmptyFieldDropped ==
  op = "describe" =>
     \A f \in DOMAIN arg : arg[f] = EmptyStats => f \notin Range(res.ret.columns)

\* C6 (as claimed): an item naming a column the proxy does not have raises,
\* returns nothing and issues no query.
C6_UnknownColumnRejected ==
  (op = "getitem"
     /\ \E i \in DOMAIN arg.item.names : ~is_source_field(arg.self.mappings, arg.item.names[i]))
  => (res.raised \in {"TypeError", "UnknownColumnError"} /\ calls = <<>>)

\* C7: shape is (the store's count, the number of the proxy's source fields),
\* whatever head fetched before.
C7_ShapeIsCountByColumns ==
  op = "shape" =>
     (res.raised = "" /\ res.ret = <<count, Len(source_fields(df.mappings))>>)

\* shape right after a head that fetched fewer rows than the store counts, on a
\* narrowed proxy
C7_Witness ==
  /\ op = "shape" /\ arg # <<>> /\ arg[1] < count
  /\ Len(df.mappings) < Len(IndexMappings)
  /\ res.ret = <<count, Len(df.mappings)>>

\* C8: a step of head, describe or shape issues exactly one query, of its own
\* kind, and leaves the proxy as it was.
C8_OneQueryNoMutation ==
  [][ /\ op' = "head" => (calls' = <<"search">> /\ df' = df)
      /\ op' = "describe" => (calls' = <<"execute">> /\ df' = df)
      /\ op' = "shape" => (calls' = <<"count">> /\ df' = df) ]_vars

\* describe on a proxy narrowed to columns none of which is numeric
C8_Witness ==
  /\ op = "describe" /\ numeric_source_fields(df.mappings) = <<>>
  /\ Len(df.mappings) > 0 /\ calls = <<"execute">> /\ res.ret.columns = <<>>

\* C9: delete_model raises nothing when the store answers not found, ignored
\* or raised, and so not on a model deleted before; another failure is raised.
C9_DeleteAbsentModelIsNoOp ==
  op = "delete_model" =>
     /\ arg.status = 404 => res.raised = ""
     /\ arg.status = 200 => (res.raised = "" /\ arg.model_id \notin models)
     /\ arg.status = 500 => res.raised = "TransportError"
     /\ calls = <<"delete_trained_model">>

\* the model was deleted by the call before, and the 404 came as NotFoundError
C9_Witness ==
  /\ op = "delete_model" /\ arg.again /\ arg.status = 404 /\ ~arg.honours
  /\ res.raised = ""

\* C10 (as claimed): after k >= 2 emissions a column holds the list of the k
\* emitted values in order, also when an emitted value is itself a list.
C10_MergeListsEveryEmission ==
  op = "flatten_dict" =>
     \A f \in Range(source_fields(df.mappings)) :
        LET occ == Emitted(df.mappings, arg, f)
        IN Len(occ) >= 2 => (DictHas(res, f) /\ DictGet(res, f) = L(occ))

====
